---- MODULE Spec2Model ----
(***************************************************************************)
(* Difference families (sage/combinat/designs/difference_family.py):       *)
(* group_law, cyclotomic_cosets, is_difference_family,                     *)
(* _nonzero_and_have_distinct_images and difference_family.                *)
(*                                                                         *)
(* Field and group elements are integers.  An element of GF(p^n) is the    *)
(* integer whose base-p digits are the coefficients of its polynomial in   *)
(* z; an element of Zmod(n) is its residue.  Python's None is the empty    *)
(* tuple <<>> and a given optional integer n is <<n>>.                     *)
(***************************************************************************)
EXTENDS Integers, Sequences, FiniteSets, TLC

\* ------------------------------------------------------------------ bounds
MaxV == 41          \* difference_family: v ranges over 0..MaxV
MaxK == 9           \* difference_family: k ranges over 0..MaxK
MaxL == 8           \* difference_family: l ranges over 0..MaxL
MaxQ == 13          \* cyclotomic_cosets: fields of order at most MaxQ
MaxBlockLen == 2    \* is_difference_family: blocks of at most MaxBlockLen elements
MaxLambda == 1      \* is_difference_family: a given l ranges over 0..MaxLambda
MaxElts == 3        \* _nonzero_and_have_distinct_images: at most MaxElts elements
MaxElt == 2         \* ... each of them in 0..MaxElt
MaxImage == 1       \* ... with images in 0..MaxImage

\* ------------------------------------------------- integers (sage.rings.arith)
IsPrime(n) == n >= 2 /\ \A d \in 2..(n - 1) : n % d # 0

RECURSIVE IsPowerOf(_, _)
IsPowerOf(n, p) ==
    IF n = 1 THEN TRUE
    ELSE IF n % p = 0 THEN IsPowerOf(n \div p, p) ELSE FALSE

is_prime_power(n) == n >= 2 /\ \E p \in 2..n : IsPrime(p) /\ IsPowerOf(n, p)

is_square(n) == n >= 0 /\ \E s \in 0..n : s * s = n

\* ---------------------------------------------------- finite fields GF(q,'z')
\* The characteristic of GF(q), for the prime powers q the model can meet.
CharacteristicOf ==
    [q \in {n \in 2..(MaxV + 1) : is_prime_power(n)} |->
        CHOOSE p \in 2..q : IsPrime(p) /\ IsPowerOf(q, p)]

Characteristic(q) == CharacteristicOf[q]

\* z^n written in the basis 1, z, ..., z^(n-1) for q = p^n, from the Conway
\* polynomial GF(q,'z') is built on (0 for a prime field, where it is unused).
Reduction(q) ==
    CASE q = 4  -> 3      \* z^2 = z + 1
      [] q = 8  -> 3      \* z^3 = z + 1
      [] q = 9  -> 4      \* z^2 = z + 1       (x^2 + 2x + 2)
      [] q = 16 -> 3      \* z^4 = z + 1
      [] q = 25 -> 8      \* z^2 = z + 3       (x^2 + 4x + 2)
      [] q = 27 -> 5      \* z^3 = z + 2       (x^3 + 2x + 1)
      [] q = 32 -> 5      \* z^5 = z^2 + 1
      [] OTHER  -> 0

RECURSIVE DigitAdd(_, _, _)
DigitAdd(p, a, b) ==
    IF a = 0 /\ b = 0 THEN 0
    ELSE (((a % p) + (b % p)) % p) + p * DigitAdd(p, a \div p, b \div p)

RECURSIVE DigitScale(_, _, _)
DigitScale(p, c, a) ==
    IF a = 0 THEN 0
    ELSE ((c * (a % p)) % p) + p * DigitScale(p, c, a \div p)

FieldZero == 0
FieldOne == 1

FieldAdd(q, a, b) ==
    IF Characteristic(q) = q THEN (a + b) % q ELSE DigitAdd(Characteristic(q), a, b)

FieldNeg(q, a) ==
    IF Characteristic(q) = q THEN (q - a) % q
    ELSE DigitScale(Characteristic(q), Characteristic(q) - 1, a)

FieldSub(q, a, b) == FieldAdd(q, a, FieldNeg(q, b))

\* a * z in GF(p^n)
TimesZ(q, p, a) ==
    LET top == a \div (q \div p)
        low == a % (q \div p)
    IN  DigitAdd(p, low * p, DigitScale(p, top, Reduction(q)))

RECURSIVE PolyMul(_, _, _, _)
PolyMul(q, p, a, b) ==
    IF b = 0 THEN 0
    ELSE DigitAdd(p, DigitScale(p, b % p, a), TimesZ(q, p, PolyMul(q, p, a, b \div p)))

FieldMul(q, a, b) ==
    IF Characteristic(q) = q THEN (a * b) % q ELSE PolyMul(q, Characteristic(q), a, b)

RECURSIVE FieldPow(_, _, _)
FieldPow(q, a, n) ==
    IF n = 0 THEN FieldOne
    ELSE LET h == FieldPow(q, a, n \div 2)
             hh == FieldMul(q, h, h)
         IN  IF n % 2 = 0 THEN hh ELSE FieldMul(q, hh, a)

FieldElements(q) == 0..(q - 1)

\* K.multiplicative_generator() returns a generator of K^*, an element of
\* order q - 1; which one is the field implementation's choice, so every
\* generator is a possible value.
MultiplicativeGenerators(q) ==
    {g \in 1..(q - 1) :
        \A j \in 1..(q - 2) : (q - 1) % j = 0 => FieldPow(q, g, j) # FieldOne}

\* -------------------------------------------------------------- Python values
None == <<>>
Some(n) == <<n>>

\* [f(i) for i in xrange(n)]
Comprehension(n, f(_)) == [i \in 1..n |-> f(i - 1)]

SetMax(S) == CHOOSE a \in S : \A b \in S : b <= a

\* ------------------------------------------------------------------ group_law
\* A group is [kind, n]: Zmod(n) and GF(n,'z') are commutative additive groups
\* of order n, DihedralGroup(n) is a multiplicative group of order 2n whose
\* element r + n*s is rotation^r * flip^s.
Zmod(n) == [kind |-> "Zmod", n |-> n]
GF(q) == [kind |-> "GF", n |-> q]
DihedralGroup(n) == [kind |-> "DihedralGroup", n |-> n]

GroupCardinality(G) == IF G.kind = "DihedralGroup" THEN 2 * G.n ELSE G.n

GroupElements(G) == 0..(GroupCardinality(G) - 1)

\* Which of the two branches of group_law applies.
group_law(G) ==
    IF G.kind = "DihedralGroup" THEN "multiplicative"     \* G in Groups()
    ELSE IF G.kind \in {"Zmod", "GF"} THEN "additive"     \* CommutativeAdditiveGroups()
    ELSE "ValueError"

\* identity, op, inv of the triple group_law returns
GroupIdentity(G) == 0       \* G.one() is rotation^0 * flip^0, G.zero() is 0

GroupOp(G, a, b) ==
    IF group_law(G) = "multiplicative"
    THEN LET ra == a % G.n
             sa == a \div G.n
             rb == b % G.n
             sb == b \div G.n
         IN  ((IF sa = 0 THEN ra + rb ELSE ra + G.n - rb) % G.n) + G.n * ((sa + sb) % 2)
    ELSE IF G.kind = "GF" THEN FieldAdd(G.n, a, b)
    ELSE (a + b) % G.n

GroupInv(G, a) ==
    IF group_law(G) = "multiplicative"
    THEN IF a \div G.n = 0 THEN (G.n - a) % G.n ELSE a
    ELSE IF G.kind = "GF" THEN FieldNeg(G.n, a)
    ELSE (G.n - a) % G.n

\* ---------------------------------------------------------- cyclotomic_cosets
\* The assertion of line 129; e = 0 makes q % e itself raise.
CosetsPrecondition(q, e) ==
    IF e = 0 THEN "ZeroDivisionError"
    ELSE IF q % e # 1 THEN "AssertionError"
    ELSE "ok"

\* Lines 130-139, once the assertion passed.  x is K.multiplicative_generator(),
\* cosets is None or Some(list of representatives).
CosetsBody(q, x, e, cosets, with_zero) ==
    LET f == (q - 1) \div e
        reps == IF cosets = None
                THEN Comprehension(e, LAMBDA i : FieldPow(q, x, i))
                ELSE cosets[1]
        xx == FieldPow(q, x, e)
        coset(y) == Comprehension(f, LAMBDA s : FieldMul(q, y, FieldPow(q, xx, s)))
    IN  IF with_zero
        THEN [c \in 1..Len(reps) |-> <<FieldZero>> \o coset(reps[c])]
        ELSE [c \in 1..Len(reps) |-> coset(reps[c])]

\* cyclotomic_cosets(K, e, cosets, with_zero): what it raises ("ok" if it
\* returns) and the value it returns.
cyclotomic_cosets(q, x, e, cosets, with_zero) ==
    LET pre == CosetsPrecondition(q, e)
    IN  [raised |-> pre,
         value |-> IF pre = "ok" THEN CosetsBody(q, x, e, cosets, with_zero) ELSE <<>>]

\* ------------------------------------------------------- is_difference_family
\* The differences op(dd[i], inv(dd[j])) in the order the loops of lines
\* 239-245 compute them: block by block, i outer, j inner, i # j.
BlockPairs(kk) == [n \in 1..(kk * kk) |-> <<((n - 1) \div kk) + 1, ((n - 1) % kk) + 1>>]

Differences(G, D, kk) ==
    [n \in 1..(Len(D) * kk * kk) |->
        LET dd == D[((n - 1) \div (kk * kk)) + 1]
            ij == BlockPairs(kk)[((n - 1) % (kk * kk)) + 1]
        IN  IF ij[1] = ij[2] THEN None
            ELSE Some(GroupOp(G, dd[ij[1]], GroupInv(G, dd[ij[2]])))]

\* Mutant of DifferencesCovered: the test of line 251 is missing.
DifferencesCoveredNoBound(G, D, kk, lam) ==
    \A n \in DOMAIN Differences(G, D, kk) :
        Differences(G, D, kk)[n] # Some(GroupIdentity(G))

\* Lines 232-257, with l known.  The loop returns False at the first difference
\* that is the identity or that takes its counter above l, and True when there
\* is none; a counter only grows, so some counter passes l during the loop
\* exactly when the element's number of occurrences is above l.
DifferencesCovered(G, D, kk, lam) ==
    LET diffs == Differences(G, D, kk)
        counter == [g \in GroupElements(G) \ {GroupIdentity(G)} |->
                       Cardinality({n \in DOMAIN diffs : diffs[n] = Some(g)})]
    IN  /\ \A n \in DOMAIN diffs : diffs[n] # Some(GroupIdentity(G))
        /\ \A g \in DOMAIN counter : ~(counter[g] > lam)

\* is_difference_family(G, D, v, k, l) with v, k, l each None or Some(integer);
\* D is a non-empty sequence of blocks.
is_difference_family(G, D, vOpt, kOpt, lOpt) ==
    LET vv == IF vOpt = None THEN GroupCardinality(G) ELSE vOpt[1]
        kk == IF kOpt = None THEN Len(D[1]) ELSE kOpt[1]
        b == Len(D)
    IN  IF vOpt # None /\ GroupCardinality(G) # vv THEN FALSE
        ELSE IF \E d \in 1..b : Len(D[d]) # kk THEN FALSE
        ELSE IF lOpt = None
             THEN IF (b * kk * (kk - 1)) % (vv - 1) # 0 THEN FALSE
                  ELSE DifferencesCovered(G, D, kk, (b * kk * (kk - 1)) \div (vv - 1))
             ELSE IF b * kk * (kk - 1) # lOpt[1] * (vv - 1) THEN FALSE
                  ELSE DifferencesCovered(G, D, kk, lOpt[1])

\* ------------------------------------------- _nonzero_and_have_distinct_images
\* Mutant of ImageStep: the test of line 284 is missing.
ImageStepNoSeen(elt, f, images) == IF elt = FieldZero THEN "zero" ELSE "added"

\* One iteration of the loop of lines 280-286 on elt: "zero" and "seen" are the
\* two return False, "added" is images.add(i).
ImageStep(elt, f, images) ==
    IF elt = FieldZero THEN "zero"
    ELSE IF f[elt] \in images THEN "seen"
    ELSE "added"

RECURSIVE DistinctImagesFrom(_, _, _)
DistinctImagesFrom(elts, f, images) ==
    IF elts = <<>> THEN TRUE
    ELSE IF ImageStep(Head(elts), f, images) # "added" THEN FALSE
    ELSE DistinctImagesFrom(Tail(elts), f, images \cup {f[Head(elts)]})

\* images is None or Some(set of forbidden images)
_nonzero_and_have_distinct_images(elts, f, images) ==
    DistinctImagesFrom(elts, f, IF images = None THEN {} ELSE images[1])


\* ------------------------------------------- difference_family: constructions
\* Mutant of Infeasible: the modulus is k instead of k*(k-1).
InfeasibleModK(vv, kk, ll) == (ll * (vv - 1)) % kk # 0

\* Line 384: k*(k-1) = 0 makes the modulus itself raise (see Feasibility).
Infeasible(vv, kk, ll) == (ll * (vv - 1)) % (kk * (kk - 1)) # 0

\* {x**i * xx**j: i for i in xrange(m) for j in xrange((v-1)/m)} with
\* xx = x**m (lines 438, 454, 467): a later item overwrites an earlier one
\* with the same key.
ToCoset(q, x, m) ==
    LET xx == FieldPow(q, x, m)
        items == {<<FieldMul(q, FieldPow(q, x, i), FieldPow(q, xx, j)), i>> :
                      i \in 0..(m - 1), j \in 0..(((q - 1) \div m) - 1)}
    IN  [key \in {it[1] : it \in items} |->
            SetMax({it[2] : it \in {w \in items : w[1] = key}})]

\* Mutant of Translates: the i-th block is x**i * B instead of x**(i*m) * B.
TranslatesByX(q, x, m, B, tt) ==
    Comprehension(tt, LAMBDA i :
        [b \in 1..Len(B) |-> FieldMul(q, FieldPow(q, x, i), B[b])])

\* [[x**(i*m) * b for b in B] for i in xrange(t)] (lines 448, 461, 473)
Translates(q, x, m, B, tt) ==
    Comprehension(tt, LAMBDA i :
        [b \in 1..Len(B) |-> FieldMul(q, FieldPow(q, x, i * m), B[b])])

\* Wilson (1972), Theorem 9, lines 436-448: the test of line 441 and the
\* family of line 448.
WilsonOddTest(q, kk, x) ==
    LET m == (kk - 1) \div 2
        to_coset == ToCoset(q, x, m)
        r == FieldPow(q, x, (q - 1) \div kk)
    IN  _nonzero_and_have_distinct_images(
            [j \in 1..m |-> FieldSub(q, FieldPow(q, r, j), FieldOne)], to_coset, None)

WilsonOddFamily(q, kk, x, tt) ==
    LET m == (kk - 1) \div 2
        r == FieldPow(q, x, (q - 1) \div kk)
        B == Comprehension(kk, LAMBDA j : FieldPow(q, r, j))
    IN  Translates(q, x, m, B, tt)

\* Wilson (1972), Theorem 10, lines 452-461.
WilsonEvenTest(q, kk, x) ==
    LET m == kk \div 2
        to_coset == ToCoset(q, x, m)
        r == FieldPow(q, x, (q - 1) \div (kk - 1))
    IN  _nonzero_and_have_distinct_images(
            [j \in 1..(m - 1) |-> FieldSub(q, FieldPow(q, r, j), FieldOne)],
            to_coset, Some({0}))

WilsonEvenFamily(q, kk, x, tt) ==
    LET m == kk \div 2
        r == FieldPow(q, x, (q - 1) \div (kk - 1))
        B == <<FieldZero>> \o Comprehension(kk - 1, LAMBDA j : FieldPow(q, r, j))
    IN  Translates(q, x, m, B, tt)

\* Wilson (1972), Theorem 11, lines 465-474: the c of to_coset that pass the
\* test of line 469.  The loop takes the first of them in the dictionary's
\* iteration order, which the language does not fix.
WilsonSixCandidates(q, x) ==
    LET r == FieldPow(q, x, (q - 1) \div 3)
        to_coset == ToCoset(q, x, 5)
    IN  {c \in DOMAIN to_coset :
            _nonzero_and_have_distinct_images(
                <<FieldSub(q, r, FieldOne),
                  FieldMul(q, c, FieldSub(q, r, FieldOne)),
                  FieldSub(q, c, FieldOne),
                  FieldSub(q, c, r),
                  FieldSub(q, c, FieldPow(q, r, 2))>>, to_coset, None)}

WilsonSixFamily(q, x, c, tt) ==
    LET r == FieldPow(q, x, (q - 1) \div 3)
        B == <<FieldOne, r, FieldPow(q, r, 2), c, FieldMul(q, c, r),
               FieldMul(q, c, FieldPow(q, r, 2))>>
    IN  Translates(q, x, 5, B, tt)


\* ------------------------------------------------- calls of the other functions
\* A call of cyclotomic_cosets, of is_difference_family and of
\* _nonzero_and_have_distinct_images made on its own (as the doctests do):
\* its arguments, the place it has reached and its local state and result.
VARIABLES
    cosetsCall, cosetsPc, cosetsResult,
    verifierCall, verifierPc, verifierResult,
    imagesCall, imagesPc, imagesLocals

cosetsVars == <<cosetsCall, cosetsPc, cosetsResult>>
verifierVars == <<verifierCall, verifierPc, verifierResult>>
imagesVars == <<imagesCall, imagesPc, imagesLocals>>

CosetsIdle == cosetsCall = None /\ cosetsPc = "idle" /\ cosetsResult = None
VerifierIdle == verifierCall = None /\ verifierPc = "idle" /\ verifierResult = None
ImagesIdle == imagesCall = None /\ imagesPc = "idle" /\ imagesLocals = None

\* ---------------------------------------------- difference_family: the call
VARIABLES
    v, k, l, existence, check,  \* the arguments of the call
    DF_constructions,           \* database.DF_constructions: key -> constructor's pair
    pc,                         \* the place the call has reached
    x,                          \* K.multiplicative_generator(), 0 before K is built
    t,                          \* number of blocks (line 394)
    D,                          \* the local D: None or Some(family)
    outcome,                    \* "running", "return" or "raise"
    value,                      \* what is returned: "True", "False", "Unknown", "pair"
    exc,                        \* the exception raised
    retK, retD,                 \* the pair returned when value = "pair"
    branch,                     \* the construction that produced the family
    verifierRuns,               \* runs of is_difference_family within this call
    prior                       \* the result of the existence query made before a
                                \* construct call (doctest, lines 366-369), "" if none

dfVars == <<v, k, l, existence, check, DF_constructions, pc, x, t, D, outcome,
            value, exc, retK, retD, branch, verifierRuns, prior>>

NoGroup == [kind |-> "none", n |-> 0]

\* The closed-form table of database.py: the (21,5,1) and (41,5,1) families of
\* the doctests of is_difference_family, and an entry under a key whose
\* parameters fail the test of line 384.
DatabaseEntries ==
    (<<21, 5, 1>> :> [group |-> Zmod(21), family |-> <<<<0, 1, 4, 14, 16>>>>]) @@
    (<<41, 5, 1>> :> [group |-> Zmod(41),
                      family |-> <<<<0, 1, 4, 11, 29>>, <<0, 2, 8, 17, 22>>>>]) @@
    (<<5, 3, 1>> :> [group |-> Zmod(5), family |-> <<<<0, 1, 2>>>>])

Databases ==
    {[key \in S |-> DatabaseEntries[key]] : S \in {{}, DOMAIN DatabaseEntries}}

Init ==
    /\ v \in 0..MaxV
    /\ k \in 0..MaxK
    /\ l \in 0..MaxL
    /\ existence \in BOOLEAN
    /\ check \in BOOLEAN
    /\ DF_constructions \in Databases
    /\ pc = "feasibility"
    /\ x = 0
    /\ t = 0
    /\ D = None
    /\ outcome = "running"
    /\ value = ""
    /\ exc = ""
    /\ retK = NoGroup
    /\ retD = <<>>
    /\ branch = ""
    /\ verifierRuns = 0
    /\ prior = ""
    /\ CosetsIdle /\ VerifierIdle /\ ImagesIdle

Return(val) ==
    /\ pc' = "done"
    /\ outcome' = "return"
    /\ value' = val
    /\ UNCHANGED <<exc, retK, retD>>

ReturnPair(G, family) ==
    /\ pc' = "done"
    /\ outcome' = "return"
    /\ value' = "pair"
    /\ retK' = G
    /\ retD' = family
    /\ UNCHANGED exc

Raise(e) ==
    /\ pc' = "done"
    /\ outcome' = "raise"
    /\ exc' = e
    /\ UNCHANGED <<value, retK, retD>>

Goto(place) ==
    /\ pc' = place
    /\ UNCHANGED <<outcome, value, exc, retK, retD>>

\* Mutant of NoConstructionAnswer: no known construction reported as impossible.
NoConstructionAnswerFalse == "False"

\* What existence mode answers when no construction applies (line 478).
NoConstructionAnswer == "Unknown"

\* return K, cyclotomic_cosets(K, e, cosets, with_zero): the call may raise.
ReturnCosets(e, cosets, with_zero) ==
    LET c == cyclotomic_cosets(v, x, e, cosets, with_zero)
    IN  IF c.raised # "ok" THEN Raise(c.raised) ELSE ReturnPair(GF(v), c.value)

\* Lines 384-387.
Feasibility ==
    /\ pc = "feasibility"
    /\ IF k * (k - 1) = 0 THEN Raise("ZeroDivisionError")
       ELSE IF Infeasible(v, k, l)
            THEN IF existence THEN Return("False") ELSE Raise("EmptySetError")
            ELSE Goto("database")
    /\ UNCHANGED <<v, k, l, existence, check, DF_constructions, x, t, D, branch,
                   verifierRuns, prior>>
    /\ UNCHANGED <<cosetsVars, verifierVars, imagesVars>>

\* Lines 389-391.
DatabaseLookup ==
    /\ pc = "database"
    /\ IF <<v, k, l>> \in DOMAIN DF_constructions
       THEN /\ ReturnPair(DF_constructions[<<v, k, l>>].group,
                          DF_constructions[<<v, k, l>>].family)
            /\ branch' = "database"
       ELSE /\ Goto("field")
            /\ UNCHANGED branch
    /\ UNCHANGED <<v, k, l, existence, check, DF_constructions, x, t, D,
                   verifierRuns, prior>>
    /\ UNCHANGED <<cosetsVars, verifierVars, imagesVars>>

\* Lines 393-400: K = GF(v,'z') with its multiplicative generator, which the
\* field keeps from one call to the next.
FieldConstruct ==
    /\ pc = "field"
    /\ t' = (l * (v - 1)) \div (k * (k - 1))
    /\ D' = None
    /\ IF is_prime_power(v)
       THEN /\ \E g \in (IF x # 0 THEN {x} ELSE MultiplicativeGenerators(v)) : x' = g
            /\ Goto("cyclotomic")
       ELSE /\ x' = x
            /\ Goto("exhaustion")
    /\ UNCHANGED <<v, k, l, existence, check, DF_constructions, branch,
                   verifierRuns, prior>>
    /\ UNCHANGED <<cosetsVars, verifierVars, imagesVars>>

\* Lines 402-405.
DirectCyclotomic ==
    /\ pc = "cyclotomic"
    /\ IF l = k - 1
       THEN IF existence
            THEN Return("True") /\ UNCHANGED branch
            ELSE ReturnCosets((v - 1) \div k, None, FALSE) /\ branch' = "cyclotomic"
       ELSE Goto("single_block") /\ UNCHANGED branch
    /\ UNCHANGED <<v, k, l, existence, check, DF_constructions, x, t, D,
                   verifierRuns, prior>>
    /\ UNCHANGED <<cosetsVars, verifierVars, imagesVars>>

\* Lines 407-426.
SingleBlock ==
    /\ pc = "single_block"
    /\ IF t = 1 /\ v % 4 = 3 /\ k = (v - 1) \div 2
       THEN IF existence
            THEN Return("True") /\ UNCHANGED branch
            ELSE ReturnCosets(2, Some(<<FieldOne>>), FALSE) /\ branch' = "quadratic"
       ELSE IF t = 1 /\ v % 8 = 5 /\ k = (v - 1) \div 4 /\ is_square((v - 1) \div 4)
       THEN IF existence
            THEN Return("True") /\ UNCHANGED branch
            ELSE ReturnCosets(4, Some(<<FieldOne>>), FALSE) /\ branch' = "quartic"
       ELSE IF t = 1 /\ v % 8 = 5 /\ k = (v + 3) \div 4 /\ is_square((v - 9) \div 4)
       THEN IF existence
            THEN Return("True") /\ UNCHANGED branch
            ELSE ReturnCosets(4, Some(<<FieldOne>>), TRUE) /\ branch' = "quartic_with_zero"
       ELSE Goto("wilson_guard") /\ UNCHANGED branch
    /\ UNCHANGED <<v, k, l, existence, check, DF_constructions, x, t, D,
                   verifierRuns, prior>>
    /\ UNCHANGED <<cosetsVars, verifierVars, imagesVars>>

\* Lines 428-432.
WilsonGuard ==
    /\ pc = "wilson_guard"
    /\ IF l # 1 THEN Raise("NotImplementedError") ELSE Goto("wilson")
    /\ UNCHANGED <<v, k, l, existence, check, DF_constructions, x, t, D, branch,
                   verifierRuns, prior>>
    /\ UNCHANGED <<cosetsVars, verifierVars, imagesVars>>

\* Lines 435-448.
WilsonOdd ==
    /\ pc = "wilson"
    /\ k % 2 = 1
    /\ IF WilsonOddTest(v, k, x)
       THEN IF existence
            THEN Return("True") /\ UNCHANGED <<D, branch>>
            ELSE /\ D' = Some(WilsonOddFamily(v, k, x, t))
                 /\ branch' = "wilson_odd"
                 /\ Goto("wilson_six")
       ELSE Goto("wilson_six") /\ UNCHANGED <<D, branch>>
    /\ UNCHANGED <<v, k, l, existence, check, DF_constructions, x, t,
                   verifierRuns, prior>>
    /\ UNCHANGED <<cosetsVars, verifierVars, imagesVars>>

\* Lines 451-461.
WilsonEven ==
    /\ pc = "wilson"
    /\ k % 2 # 1
    /\ IF WilsonEvenTest(v, k, x)
       THEN IF existence
            THEN Return("True") /\ UNCHANGED <<D, branch>>
            ELSE /\ D' = Some(WilsonEvenFamily(v, k, x, t))
                 /\ branch' = "wilson_even"
                 /\ Goto("wilson_six")
       ELSE Goto("wilson_six") /\ UNCHANGED <<D, branch>>
    /\ UNCHANGED <<v, k, l, existence, check, DF_constructions, x, t,
                   verifierRuns, prior>>
    /\ UNCHANGED <<cosetsVars, verifierVars, imagesVars>>

\* Lines 463-474.
WilsonSix ==
    /\ pc = "wilson_six"
    /\ IF D = None /\ k = 6 /\ WilsonSixCandidates(v, x) # {}
       THEN IF existence
            THEN Return("True") /\ UNCHANGED <<D, branch>>
            ELSE /\ \E c \in WilsonSixCandidates(v, x) :
                        D' = Some(WilsonSixFamily(v, x, c, t))
                 /\ branch' = "wilson_six"
                 /\ Goto("exhaustion")
       ELSE Goto("exhaustion") /\ UNCHANGED <<D, branch>>
    /\ UNCHANGED <<v, k, l, existence, check, DF_constructions, x, t,
                   verifierRuns, prior>>
    /\ UNCHANGED <<cosetsVars, verifierVars, imagesVars>>

\* Lines 476-479.
Exhaustion ==
    /\ pc = "exhaustion"
    /\ IF D = None
       THEN IF existence THEN Return(NoConstructionAnswer)
                         ELSE Raise("NotImplementedError")
       ELSE Goto("gate")
    /\ UNCHANGED <<v, k, l, existence, check, DF_constructions, x, t, D, branch,
                   verifierRuns, prior>>
    /\ UNCHANGED <<cosetsVars, verifierVars, imagesVars>>

\* Lines 481-484.
VerificationGate ==
    /\ pc = "gate"
    /\ verifierRuns' = IF check THEN verifierRuns + 1 ELSE verifierRuns
    /\ IF check /\ ~is_difference_family(GF(v), D[1], None, None, None)
       THEN Raise("RuntimeError")
       ELSE ReturnPair(GF(v), D[1])
    /\ UNCHANGED <<v, k, l, existence, check, DF_constructions, x, t, D, branch,
                   prior>>
    /\ UNCHANGED <<cosetsVars, verifierVars, imagesVars>>

\* The doctest of lines 366-369: after the existence query passed the assert,
\* the same parameters are constructed (with the default check).
ConstructAfterQuery ==
    /\ pc = "done"
    /\ existence
    /\ outcome = "return"
    /\ value \in {"True", "pair"}
    /\ prior' = value
    /\ existence' = FALSE
    /\ check' = TRUE
    /\ pc' = "feasibility"
    /\ outcome' = "running"
    /\ value' = ""
    /\ exc' = ""
    /\ retK' = NoGroup
    /\ retD' = <<>>
    /\ branch' = ""
    /\ verifierRuns' = 0
    /\ t' = 0
    /\ D' = None
    /\ UNCHANGED <<v, k, l, DF_constructions, x>>
    /\ UNCHANGED <<cosetsVars, verifierVars, imagesVars>>

Next ==
    \/ Feasibility
    \/ DatabaseLookup
    \/ FieldConstruct
    \/ DirectCyclotomic
    \/ SingleBlock
    \/ WilsonGuard
    \/ WilsonOdd
    \/ WilsonEven
    \/ WilsonSix
    \/ Exhaustion
    \/ VerificationGate
    \/ ConstructAfterQuery

vars == <<dfVars, cosetsVars, verifierVars, imagesVars>>

Spec == Init /\ [][Next]_vars


\* No call of difference_family is made.
DifferenceFamilyIdle ==
    /\ v = 0 /\ k = 0 /\ l = 0 /\ existence = FALSE /\ check = FALSE
    /\ DF_constructions = <<>>
    /\ pc = "idle" /\ x = 0 /\ t = 0 /\ D = None
    /\ outcome = "idle" /\ value = "" /\ exc = ""
    /\ retK = NoGroup /\ retD = <<>> /\ branch = "" /\ verifierRuns = 0 /\ prior = ""

\* ------------------------------------------------ cyclotomic_cosets: the call
PrimePowers(n) == {q \in 2..n : is_prime_power(q)}

CosetsInit ==
    /\ \E q \in PrimePowers(MaxQ) : \E g \in MultiplicativeGenerators(q) :
       \E e \in 1..q : \E c \in {None, Some(<<FieldOne>>)} : \E w \in BOOLEAN :
           cosetsCall = [q |-> q, x |-> g, e |-> e, cosets |-> c, with_zero |-> w]
    /\ cosetsPc = "assert"
    /\ cosetsResult = None
    /\ DifferenceFamilyIdle /\ VerifierIdle /\ ImagesIdle

\* Lines 128-129.
CosetsAssert ==
    /\ cosetsPc = "assert"
    /\ IF CosetsPrecondition(cosetsCall.q, cosetsCall.e) # "ok"
       THEN /\ cosetsResult' = [raised |-> CosetsPrecondition(cosetsCall.q, cosetsCall.e),
                                value |-> <<>>]
            /\ cosetsPc' = "done"
       ELSE /\ cosetsPc' = "build"
            /\ UNCHANGED cosetsResult
    /\ UNCHANGED <<cosetsCall, dfVars, verifierVars, imagesVars>>

\* Lines 130-139.
CosetsBuild ==
    /\ cosetsPc = "build"
    /\ cosetsResult' = [raised |-> "ok",
                        value |-> CosetsBody(cosetsCall.q, cosetsCall.x, cosetsCall.e,
                                             cosetsCall.cosets, cosetsCall.with_zero)]
    /\ cosetsPc' = "done"
    /\ UNCHANGED <<cosetsCall, dfVars, verifierVars, imagesVars>>

CosetsNext ==
    \/ CosetsAssert
    \/ CosetsBuild

SpecCosets == CosetsInit /\ [][CosetsNext]_vars

\* --------------------------------------------- is_difference_family: the call
VerifierGroups == {Zmod(2), Zmod(3), Zmod(5), DihedralGroup(2)}
BlockCounts == {1, 2}

Blocks(G) == UNION {[1..n -> GroupElements(G)] : n \in 0..MaxBlockLen}

VerifierInit ==
    /\ \E G \in VerifierGroups : \E b \in BlockCounts :
       \E fam \in [1..b -> Blocks(G)] :
       \E vOpt \in {None, Some(GroupCardinality(G)), Some(GroupCardinality(G) + 1)} :
       \E kOpt \in {None, Some(Len(fam[1])), Some(Len(fam[1]) + 1)} :
       \E lOpt \in {None} \cup {Some(j) : j \in 0..MaxLambda} :
           verifierCall = [G |-> G, D |-> fam, v |-> vOpt, k |-> kOpt, l |-> lOpt]
    /\ verifierPc = "cardinality"
    /\ verifierResult = [v |-> 0, k |-> 0, l |-> 0, ret |-> "none"]
    /\ DifferenceFamilyIdle /\ CosetsIdle /\ ImagesIdle

\* Lines 198-205.
VerifierCardinality ==
    /\ verifierPc = "cardinality"
    /\ IF verifierCall.v = None
       THEN /\ verifierResult' =
                   [verifierResult EXCEPT !.v = GroupCardinality(verifierCall.G)]
            /\ verifierPc' = "block_sizes"
       ELSE IF GroupCardinality(verifierCall.G) # verifierCall.v[1]
       THEN /\ verifierResult' =
                   [verifierResult EXCEPT !.v = verifierCall.v[1], !.ret = "False"]
            /\ verifierPc' = "done"
       ELSE /\ verifierResult' = [verifierResult EXCEPT !.v = verifierCall.v[1]]
            /\ verifierPc' = "block_sizes"
    /\ UNCHANGED <<verifierCall, dfVars, cosetsVars, imagesVars>>

\* Lines 207-217.
VerifierBlockSizes ==
    /\ verifierPc = "block_sizes"
    /\ LET kk == IF verifierCall.k = None THEN Len(verifierCall.D[1])
                 ELSE verifierCall.k[1]
       IN  IF \E d \in DOMAIN verifierCall.D : Len(verifierCall.D[d]) # kk
           THEN /\ verifierResult' = [verifierResult EXCEPT !.k = kk, !.ret = "False"]
                /\ verifierPc' = "done"
           ELSE /\ verifierResult' = [verifierResult EXCEPT !.k = kk]
                /\ verifierPc' = "relation"
    /\ UNCHANGED <<verifierCall, dfVars, cosetsVars, imagesVars>>

\* Lines 219-230.
VerifierRelation ==
    /\ verifierPc = "relation"
    /\ LET b == Len(verifierCall.D)
           kk == verifierResult.k
           vv == verifierResult.v
       IN  IF verifierCall.l = None
           THEN IF (b * kk * (kk - 1)) % (vv - 1) # 0
                THEN /\ verifierResult' = [verifierResult EXCEPT !.ret = "False"]
                     /\ verifierPc' = "done"
                ELSE /\ verifierResult' =
                            [verifierResult EXCEPT !.l = (b * kk * (kk - 1)) \div (vv - 1)]
                     /\ verifierPc' = "count"
           ELSE IF b * kk * (kk - 1) # verifierCall.l[1] * (vv - 1)
                THEN /\ verifierResult' =
                            [verifierResult EXCEPT !.l = verifierCall.l[1], !.ret = "False"]
                     /\ verifierPc' = "done"
                ELSE /\ verifierResult' = [verifierResult EXCEPT !.l = verifierCall.l[1]]
                     /\ verifierPc' = "count"
    /\ UNCHANGED <<verifierCall, dfVars, cosetsVars, imagesVars>>

\* Lines 232-257.
VerifierCount ==
    /\ verifierPc = "count"
    /\ verifierResult' =
           [verifierResult EXCEPT !.ret =
               IF DifferencesCovered(verifierCall.G, verifierCall.D,
                                     verifierResult.k, verifierResult.l)
               THEN "True" ELSE "False"]
    /\ verifierPc' = "done"
    /\ UNCHANGED <<verifierCall, dfVars, cosetsVars, imagesVars>>

VerifierNext ==
    \/ VerifierCardinality
    \/ VerifierBlockSizes
    \/ VerifierRelation
    \/ VerifierCount

SpecVerifier == VerifierInit /\ [][VerifierNext]_vars

\* -------------------------------- _nonzero_and_have_distinct_images: the call
ImagesInit ==
    /\ \E n \in 0..MaxElts : \E es \in [1..n -> 0..MaxElt] :
       \E f \in [1..MaxElt -> 0..MaxImage] :
       \E im \in {None} \cup {Some(S) : S \in SUBSET (0..MaxImage)} :
           imagesCall = [elts |-> es, f |-> f, images |-> im]
    /\ imagesPc = "enter"
    /\ imagesLocals = [images |-> {}, consumed |-> 0, ret |-> "none"]
    /\ DifferenceFamilyIdle /\ CosetsIdle /\ VerifierIdle

\* Lines 278-279.
ImagesEnter ==
    /\ imagesPc = "enter"
    /\ imagesLocals' = [imagesLocals EXCEPT !.images =
                           IF imagesCall.images = None THEN {} ELSE imagesCall.images[1]]
    /\ imagesPc' = "loop"
    /\ UNCHANGED <<imagesCall, dfVars, cosetsVars, verifierVars>>

\* Lines 280-286: one element is taken from elts.
ImagesIterate ==
    /\ imagesPc = "loop"
    /\ imagesLocals.consumed < Len(imagesCall.elts)
    /\ LET elt == imagesCall.elts[imagesLocals.consumed + 1]
       IN  IF ImageStep(elt, imagesCall.f, imagesLocals.images) = "added"
           THEN /\ imagesLocals' =
                       [imagesLocals EXCEPT !.consumed = @ + 1,
                                            !.images = @ \cup {imagesCall.f[elt]}]
                /\ imagesPc' = "loop"
           ELSE /\ imagesLocals' =
                       [imagesLocals EXCEPT !.consumed = @ + 1, !.ret = "False"]
                /\ imagesPc' = "done"
    /\ UNCHANGED <<imagesCall, dfVars, cosetsVars, verifierVars>>

\* Line 287.
ImagesExhausted ==
    /\ imagesPc = "loop"
    /\ imagesLocals.consumed = Len(imagesCall.elts)
    /\ imagesLocals' = [imagesLocals EXCEPT !.ret = "True"]
    /\ imagesPc' = "done"
    /\ UNCHANGED <<imagesCall, dfVars, cosetsVars, verifierVars>>

ImagesNext ==
    \/ ImagesEnter
    \/ ImagesIterate
    \/ ImagesExhausted

SpecImages == ImagesInit /\ [][ImagesNext]_vars

\* ----------------------------------------------------- claims: difference_family
\* d divides a: a is d times the quotient of a by d (0 divides only 0).
Divides(d, a) == IF d = 0 THEN a = 0 ELSE a = (a \div d) * d

\* The number of ordered pairs of distinct positions of a block of family whose
\* difference op(a, inv(b)) is g.
Occurrences(G, family, g) ==
    LET longest == SetMax({Len(family[b]) : b \in DOMAIN family} \cup {0})
    IN  Cardinality({w \in (DOMAIN family) \X (1..longest) \X (1..longest) :
                        /\ w[2] \in DOMAIN family[w[1]]
                        /\ w[3] \in DOMAIN family[w[1]]
                        /\ w[2] # w[3]
                        /\ GroupOp(G, family[w[1]][w[2]],
                                   GroupInv(G, family[w[1]][w[3]])) = g})

SeqRange(seq) == {seq[i] : i \in DOMAIN seq}

ConstructionBranches ==
    {"cyclotomic", "quadratic", "quartic", "quartic_with_zero",
     "wilson_odd", "wilson_even", "wilson_six"}

ReturnedFamily == pc = "done" /\ ~existence /\ outcome = "return" /\ value = "pair"

C3_ExistenceQueryNeverRaises ==
    (pc = "done" /\ existence) => outcome = "return"

\* C4: whenever the existence query returned True, the construct-mode call with
\* the same parameters returns a pair (K,D) and is_difference_family(K,D,v,k,l)
\* is True.
C4_TrueQueryThenConstructs ==
    (pc = "done" /\ prior = "True")
        => /\ outcome = "return"
           /\ value = "pair"
           /\ is_difference_family(retK, retD, Some(v), Some(k), Some(l))

\* C5: for k >= 2 and l*(v-1) not divisible by k*(k-1), existence mode returns
\* False and construct mode raises EmptySetError, and the database is not
\* consulted, even when (v,k,l) is one of its keys.
C5_InfeasibleDecidedFirst ==
    (k >= 2 /\ ~Divides(k * (k - 1), l * (v - 1)))
        => /\ pc \in {"feasibility", "done"}
           /\ branch = ""
           /\ pc = "done" =>
                  IF existence THEN outcome = "return" /\ value = "False"
                               ELSE outcome = "raise" /\ exc = "EmptySetError"

C5_Witness ==
    /\ pc = "done"
    /\ ~existence
    /\ <<v, k, l>> \in DOMAIN DF_constructions
    /\ ~Divides(k * (k - 1), l * (v - 1))
    /\ exc = "EmptySetError"

\* C7: existence mode returns False only when l*(v-1) is not divisible by
\* k*(k-1); for feasible parameters the answer is never False, whatever branch
\* is reached.
C7_FalseOnlyWhenInfeasible ==
    (pc = "done" /\ existence /\ outcome = "return" /\ value = "False")
        => ~Divides(k * (k - 1), l * (v - 1))

\* A failed Wilson search on a prime power v, answered Unknown.
C7_Witness ==
    /\ pc = "done"
    /\ existence
    /\ value = "Unknown"
    /\ is_prime_power(v)
    /\ l = 1

\* C8: for a feasible key of the database the existence query returns the
\* boolean True, and the construct-mode call returns the constructor's pair.
C8_DatabaseQueryReturnsTrue ==
    (pc = "done" /\ outcome = "return" /\ branch = "database")
        => IF existence
           THEN value = "True"
           ELSE /\ value = "pair"
                /\ retK = DF_constructions[<<v, k, l>>].group
                /\ retD = DF_constructions[<<v, k, l>>].family

\* C9: with check set, every family a construct-mode call returns was verified
\* by is_difference_family within that call.
C9_ReturnedFamilyWasVerified ==
    (ReturnedFamily /\ check) => verifierRuns >= 1


\* ----------------------------------------------------- claims: cyclotomic_cosets
\* C6: for a field of order q and a positive divisor e of q - 1 (e = 1 and
\* e = q - 1 included), cyclotomic_cosets(K,e) without cosets and with_zero
\* returns e cosets of (q-1)/e elements in which every nonzero element of K
\* appears exactly once and zero never.
C6_CosetsPartitionNonzeroElements ==
    (/\ cosetsPc = "done"
     /\ cosetsCall.cosets = None
     /\ ~cosetsCall.with_zero
     /\ Divides(cosetsCall.e, cosetsCall.q - 1))
        => /\ cosetsResult.raised = "ok"
           /\ Len(cosetsResult.value) = cosetsCall.e
           /\ \A c \in DOMAIN cosetsResult.value :
                  Len(cosetsResult.value[c]) * cosetsCall.e = cosetsCall.q - 1
           /\ \A a \in FieldElements(cosetsCall.q) :
                  Cardinality({w \in (DOMAIN cosetsResult.value) \X (1..cosetsCall.q) :
                                  /\ w[2] \in DOMAIN cosetsResult.value[w[1]]
                                  /\ cosetsResult.value[w[1]][w[2]] = a})
                      = IF a = FieldZero THEN 0 ELSE 1

\* -------------------------------------------------- claims: is_difference_family
VerifierV ==
    IF verifierCall.v = None THEN GroupCardinality(verifierCall.G) ELSE verifierCall.v[1]

VerifierK ==
    IF verifierCall.k = None THEN Len(verifierCall.D[1]) ELSE verifierCall.k[1]

\* Every non-identity element occurs exactly l times as a difference, l being
\* b*k*(k-1)/(v-1) when it is omitted.
EveryDifferenceLTimes ==
    \A g \in GroupElements(verifierCall.G) \ {GroupIdentity(verifierCall.G)} :
        IF verifierCall.l = None
        THEN Occurrences(verifierCall.G, verifierCall.D, g) * (VerifierV - 1)
                 = Len(verifierCall.D) * VerifierK * (VerifierK - 1)
        ELSE Occurrences(verifierCall.G, verifierCall.D, g) = verifierCall.l[1]

BlocksHaveKElements ==
    \A d \in DOMAIN verifierCall.D : Len(verifierCall.D[d]) = VerifierK

BlocksHaveDistinctElements ==
    \A d \in DOMAIN verifierCall.D :
        Cardinality(SeqRange(verifierCall.D[d])) = Len(verifierCall.D[d])

\* C2 as stated: is_difference_family returns True exactly when G has v
\* elements, every block has k elements and every non-identity element occurs
\* exactly l times among the differences.
C2_VerifierIffCounts ==
    verifierPc = "done"
        => (verifierResult.ret = "True"
              <=> /\ GroupCardinality(verifierCall.G) = VerifierV
                  /\ BlocksHaveKElements
                  /\ EveryDifferenceLTimes)

\* C2 amended: ... every block has k pairwise distinct elements ...
C2_VerifierIffDistinctAndCounts ==
    verifierPc = "done"
        => /\ verifierResult.ret = "True"
                <=> /\ GroupCardinality(verifierCall.G) = VerifierV
                    /\ BlocksHaveKElements
                    /\ BlocksHaveDistinctElements
                    /\ EveryDifferenceLTimes
           /\ verifierResult.ret = "True"
                <=> is_difference_family(verifierCall.G, verifierCall.D,
                                         verifierCall.v, verifierCall.k, verifierCall.l)

\* A family of two blocks of distinct elements that satisfies b*k*(k-1) = l*(v-1)
\* and is rejected for an over-represented difference.
C2_Witness ==
    /\ verifierPc = "done"
    /\ verifierResult.ret = "False"
    /\ verifierCall.l # None
    /\ Len(verifierCall.D) = 2
    /\ BlocksHaveKElements
    /\ BlocksHaveDistinctElements
    /\ Len(verifierCall.D) * VerifierK * (VerifierK - 1) = verifierCall.l[1] * (VerifierV - 1)
    /\ VerifierK = 2
    /\ GroupCardinality(verifierCall.G) = VerifierV

\* ------------------------------- claims: _nonzero_and_have_distinct_images
ForbiddenImages == IF imagesCall.images = None THEN {} ELSE imagesCall.images[1]

\* The first n elements are nonzero and their images are pairwise distinct and
\* not forbidden.
Admissible(n) ==
    /\ \A i \in 1..n : imagesCall.elts[i] # 0
    /\ \A i \in 1..n :
           /\ imagesCall.f[imagesCall.elts[i]] \notin ForbiddenImages
           /\ \A j \in 1..(i - 1) :
                  imagesCall.f[imagesCall.elts[j]] # imagesCall.f[imagesCall.elts[i]]

\* C10: _nonzero_and_have_distinct_images returns True exactly when every
\* element is nonzero and the images are pairwise distinct and not forbidden,
\* and it returns False at the first element that breaks this, having taken no
\* later element from the sequence.
C10_DistinctImagesShortCircuit ==
    imagesPc = "done"
        => /\ imagesLocals.ret = "True" <=> Admissible(Len(imagesCall.elts))
           /\ imagesLocals.ret = "False"
                => /\ imagesLocals.consumed \in 1..Len(imagesCall.elts)
                   /\ Admissible(imagesLocals.consumed - 1)
                   /\ ~Admissible(imagesLocals.consumed)
           /\ imagesLocals.ret = "True"
                <=> _nonzero_and_have_distinct_images(imagesCall.elts, imagesCall.f,
                                                      imagesCall.images)

\* False at the second element, whose image repeats the first one's, with a
\* third element never taken.
C10_Witness ==
    /\ imagesPc = "done"
    /\ imagesLocals.ret = "False"
    /\ imagesLocals.consumed = 2
    /\ Len(imagesCall.elts) = 3
    /\ imagesCall.elts[2] # 0
    /\ imagesCall.f[imagesCall.elts[2]] \notin ForbiddenImages

====
